---- MODULE Spec2Model ----
(***************************************************************************)
(* Model of py_code/toc_md_reader.py: TOCMarkdownReader.read and the YAML  *)
(* metadata normalisation it drives.                                       *)
(*                                                                         *)
(* Text is a sequence of tokens.  In a document the tokens are "---" and   *)
(* "..." (three dashes, three dots), "\n" and "a" (any other non-blank     *)
(* character run).  In a metadata string they are characters or fixed      *)
(* character groups ("pag" \o "es/" spells "pages/").                      *)
(*                                                                         *)
(* A Python value is a record [k, s, items]: k its type, s its text (for   *)
(* str, int, date, datetime and the Tag/Category/Author records), items    *)
(* the elements of a list.                                                 *)
(***************************************************************************)
EXTENDS Integers, Sequences, FiniteSets, TLC

\* ------------------------------------------------------------------ bounds
MaxDocLen == 7
MaxFields == 2

\* ------------------------------------------------------------- Python values
Null == [k |-> "null", s |-> <<>>, items |-> <<>>]
Str(t) == [k |-> "str", s |-> t, items |-> <<>>]
IntV(t) == [k |-> "int", s |-> t, items |-> <<>>]
DateObj(t) == [k |-> "date", s |-> t, items |-> <<>>]
DateTime(t) == [k |-> "datetime", s |-> t, items |-> <<>>]
ListV(xs) == [k |-> "list", s |-> <<>>, items |-> xs]
Tag(t) == [k |-> "Tag", s |-> t, items |-> <<>>]
Category(t) == [k |-> "Category", s |-> t, items |-> <<>>]
Author(t) == [k |-> "Author", s |-> t, items |-> <<>>]
TocTokens(t) == [k |-> "toc_tokens", s |-> t, items |-> <<>>]
Raise(e) == [k |-> "raise", s |-> <<e>>, items |-> <<>>]

\* _DEL = object(): the sentinel a processor returns to omit the field
DEL == [k |-> "_DEL", s |-> <<>>, items |-> <<>>]

EmptyDict == [x \in {} |-> Null]
Put(d, key, v) == [x \in DOMAIN d \cup {key} |-> IF x = key THEN v ELSE d[x]]

\* bool(obj)
Truthy(v) ==
    CASE v.k = "null" -> FALSE
      [] v.k = "str" -> v.s # <<>>
      [] v.k = "int" -> v.s # <<"0">>
      [] v.k = "list" -> v.items # <<>>
      [] OTHER -> TRUE

RECURSIVE Concat(_)
Concat(ss) == IF ss = <<>> THEN <<>> ELSE Head(ss) \o Concat(Tail(ss))

\* str(obj): a list prints its elements' repr
RECURSIVE PyStr(_)
PyRepr(v) == IF v.k = "str" THEN <<"'">> \o v.s \o <<"'">> ELSE PyStr(v)
PyStr(v) ==
    CASE v.k = "null" -> <<"None">>
      [] v.k = "list" ->
            <<"[">> \o Concat([i \in 1..Len(v.items) |->
                          (IF i > 1 THEN <<",", " ">> ELSE <<>>) \o PyRepr(v.items[i])])
                    \o <<"]">>
      [] OTHER -> v.s

IsSpace(c) == c \in {" ", "\n"}

\* str.strip()
RECURSIVE LStrip(_)
LStrip(t) == IF t # <<>> /\ IsSpace(Head(t)) THEN LStrip(Tail(t)) ELSE t
RECURSIVE RStrip(_)
RStrip(t) ==
    IF t # <<>> /\ IsSpace(t[Len(t)]) THEN RStrip(SubSeq(t, 1, Len(t) - 1)) ELSE t
StrStrip(t) == RStrip(LStrip(t))

\* _strip(obj) = str(obj).strip()
Strip(v) == StrStrip(PyStr(v))

\* _to_list(obj)
ToList(v) == IF v.k = "list" THEN v.items ELSE <<v>>

\* str.replace("_", " ")
ReplaceUnderscore(t) == [i \in 1..Len(t) |-> IF t[i] = "_" THEN " " ELSE t[i]]

\* str.replace('pages/', ''): left to right, occurrences that do not overlap
RECURSIVE ReplacePages(_)
ReplacePages(t) ==
    IF Len(t) < 2 THEN t
    ELSE IF t[1] = "pag" /\ t[2] = "es/" THEN ReplacePages(SubSeq(t, 3, Len(t)))
    ELSE <<t[1]>> \o ReplacePages(Tail(t))

\* pelican.utils.get_date: the texts it parses; any other raises ValueError
ParsableDates == { <<"2020-01-01">>, <<"2020-01-01", " ", "10:20">> }
GetDate(t) == IF t \in ParsableDates THEN DateTime(t) ELSE Raise("ValueError")

\* _parse_date(obj)
ParseDate(v) ==
    LET obj == IF v.k \in {"date", "datetime"} THEN Str(v.s) ELSE v
    IN  GetDate(ReplaceUnderscore(Strip(obj)))

\* Markdown.convert(text): the rendering of a text, empty for an empty one
Convert(t) == IF StrStrip(t) = <<>> THEN <<>> ELSE <<"<p>">> \o StrStrip(t) \o <<"</p>">>

\* "\n".join(value): TypeError unless every element is a str
RECURSIVE JoinLines(_)
JoinLines(xs) ==
    IF xs = <<>> THEN <<>>
    ELSE IF Len(xs) = 1 THEN xs[1].s
    ELSE xs[1].s \o <<"\n">> \o JoinLines(Tail(xs))

\* ------------------------------------------------------------ configuration
\* pelican.readers.DUPLICATES_DEFINITIONS_ALLOWED: every entry is False
DUPLICATES_DEFINITIONS_ALLOWED ==
    {"tags", "date", "modified", "status", "category", "author", "save_as",
     "url", "authors", "slug"}

DUPES_NOT_ALLOWED == DUPLICATES_DEFINITIONS_ALLOWED \ {"tags", "authors"}

\* the keys of YAML_METADATA_PROCESSORS
ProcessorNames ==
    {"tags", "date", "modified", "category", "author", "authors", "slug",
     "save_as", "status", "path_no_ext"}

StripOrDel(x) == IF Strip(x) = <<>> THEN DEL ELSE Str(Strip(x))

TagsProcessorKeepsEmpty(x) ==
    ListV([i \in 1..Len(ToList(x)) |-> Tag(Strip(ToList(x)[i]))])

TagsProcessor(x) ==
    LET l == [i \in 1..Len(ToList(x)) |-> Tag(Strip(ToList(x)[i]))]
    IN  IF l = <<>> THEN DEL ELSE ListV(l)

CategoryProcessor(x) == IF Truthy(x) THEN Category(Strip(x)) ELSE DEL

AuthorProcessor(x) == IF Truthy(x) THEN Author(Strip(x)) ELSE DEL

AuthorsProcessor(x) ==
    LET l == [i \in 1..Len(ToList(x)) |-> Author(Strip(ToList(x)[i]))]
    IN  IF l = <<>> THEN DEL ELSE ListV(l)

\* x.replace('pages/', ''): only a str has the method
PathNoExtProcessor(x) ==
    IF x.k = "str" THEN Str(ReplacePages(x.s)) ELSE Raise("AttributeError")

\* YAML_METADATA_PROCESSORS[name](value, settings)
Processor(name, x) ==
    CASE name = "tags" -> TagsProcessor(x)
      [] name \in {"date", "modified"} -> ParseDate(x)
      [] name = "category" -> CategoryProcessor(x)
      [] name = "author" -> AuthorProcessor(x)
      [] name = "authors" -> AuthorsProcessor(x)
      [] name \in {"slug", "save_as", "status"} -> StripOrDel(x)
      [] name = "path_no_ext" -> PathNoExtProcessor(x)

\* TOCMarkdownReader.process_metadata
ProcessMetadata(name, x) == IF name \in ProcessorNames THEN Processor(name, x) ELSE x

\* ------------------------------------------------------------ field names
\* a mapping key that is not a str (the YAML key 1) has no lower()
NonStrKeys == {"#1"}

\* str.lower()
Lower(name) ==
    CASE name = "Slug" -> "slug"
      [] name = "Author" -> "author"
      [] name = "TOC" -> "toc"
      [] OTHER -> name

NonNull(xs) == SelectSeq(xs, LAMBDA x : x.k # "null")

AllStr(xs) == \A i \in 1..Len(xs) : xs[i].k = "str"

\* value = value[0]
LastOf(xs) == xs[Len(xs)]
FirstOf(xs) == xs[1]

\* is_list and len(value) > 1 and name == "author"
UpconvertsFromOne(is_list, n, nm) == is_list /\ n >= 1 /\ nm = "author"
Upconverts(is_list, n, nm) == is_list /\ n > 1 /\ nm = "author"

\* One iteration of the loop of _parse_yaml_metadata over (name, value), with
\* `fmt` = settings["FORMATTED_FIELDS"]: the part up to the processors.
\* [name, value, warn, exc]: the name and value handed on, whether the
\* duplicate warning was logged, and the exception raised ("" for none).
Collapse(fmt, name, value) ==
    LET nm == Lower(name)
        is_list == value.k = "list"
        v == IF is_list THEN ListV(NonNull(value.items)) ELSE value
    IN  IF nm \in fmt
        THEN IF is_list /\ ~AllStr(v.items)
             THEN [name |-> nm, value |-> v, warn |-> FALSE, exc |-> "TypeError"]
             ELSE [name |-> nm,
                   value |-> Str(Convert(IF is_list THEN JoinLines(v.items) ELSE PyStr(v))),
                   warn |-> FALSE, exc |-> ""]
        ELSE IF Upconverts(is_list, Len(v.items), nm)
        THEN [name |-> "authors", value |-> v, warn |-> FALSE, exc |-> ""]
        ELSE IF is_list /\ nm \in DUPES_NOT_ALLOWED
        THEN IF v.items = <<>>
             THEN [name |-> nm, value |-> v, warn |-> FALSE, exc |-> "IndexError"]
             ELSE [name |-> nm, value |-> FirstOf(v.items), warn |-> Len(v.items) > 1, exc |-> ""]
        ELSE [name |-> nm, value |-> v, warn |-> FALSE, exc |-> ""]

\* The whole iteration on the output built so far.
\* [output, warn, exc]: warn is the set of names a warning was logged for.
ParseItem(out, fmt, name, value) ==
    IF value.k = "null" THEN [output |-> out, warn |-> {}, exc |-> ""]
    ELSE IF name \in NonStrKeys THEN [output |-> out, warn |-> {}, exc |-> "AttributeError"]
    ELSE LET c == Collapse(fmt, name, value)
             w == IF c.warn THEN {c.name} ELSE {}
         IN  IF c.exc # "" THEN [output |-> out, warn |-> w, exc |-> c.exc]
             ELSE LET r == ProcessMetadata(c.name, c.value)
                  IN  IF r.k = "raise" THEN [output |-> out, warn |-> w, exc |-> r.s[1]]
                      ELSE IF r = DEL THEN [output |-> out, warn |-> w, exc |-> ""]
                      ELSE [output |-> Put(out, c.name, r), warn |-> w, exc |-> ""]

\* RECURSIVE over the items of a mapping, in order: _parse_yaml_metadata as a
\* function of meta (a sequence of [name, value]); exc # "" when it raises
RECURSIVE ParseFrom(_, _, _)
ParseFrom(out, fmt, meta) ==
    IF meta = <<>> THEN [output |-> out, exc |-> ""]
    ELSE LET r == ParseItem(out, fmt, Head(meta).name, Head(meta).value)
         IN  IF r.exc # "" THEN [output |-> out, exc |-> r.exc]
             ELSE ParseFrom(r.output, fmt, Tail(meta))

ParseYamlMetadata(fmt, meta) == ParseFrom(EmptyDict, fmt, meta)

\* ------------------------------------------------------------ HEADER_RE
Markers == {"---", "..."}

\* \s* is greedy: it takes the leading whitespace, all of it
RECURSIVE WsLen(_)
WsLen(text) == IF text # <<>> /\ IsSpace(Head(text)) THEN 1 + WsLen(Tail(text)) ELSE 0

\* ^ and $ under re.MULTILINE, before the token at position i
AtLineStart(text, i) == i = 1 \/ text[i - 1] = "\n"
AtLineEnd(text, i) == i > Len(text) \/ text[i] = "\n"

Min(S) == CHOOSE x \in S : \A y \in S : x <= y
Max(S) == CHOOSE x \in S : \A y \in S : x >= y

EndMarkersNoLineEnd(text, st) ==
    { j \in (st + 2)..Len(text) : AtLineStart(text, j) /\ text[j] \in Markers }

\* the positions where ^(?:---|\.\.\.)$ matches after a start marker at st
\* and a metadata group of one character or more
EndMarkers(text, st) ==
    { j \in (st + 2)..Len(text) :
        AtLineStart(text, j) /\ text[j] \in Markers /\ AtLineEnd(text, j + 1) }

NoMatch == [matched |-> FALSE, metadata |-> <<>>, content |-> <<>>]

\* .+? is lazy: the metadata group ends at the first end marker
LastEnd(S) == Max(S)
FirstEnd(S) == Min(S)

\* HEADER_RE.fullmatch(text)
HeaderMatch(text) ==
    LET st == WsLen(text) + 1
    IN  IF st <= Len(text) /\ AtLineStart(text, st) /\ text[st] = "---"
           /\ AtLineEnd(text, st + 1) /\ EndMarkers(text, st) # {}
        THEN LET j == FirstEnd(EndMarkers(text, st))
             IN  [matched |-> TRUE,
                  metadata |-> SubSeq(text, st + 1, j - 1),
                  content |-> SubSeq(text, j + 1, Len(text))]
        ELSE NoMatch

\* yaml.safe_load(text), by its outcome: it raises, returns something that is
\* not a dict, or returns a dict.  A text of markers and line breaks alone
\* holds no mapping.
YamlSafeLoad(text) ==
    IF \E i \in 1..Len(text) : text[i] = "a" THEN {"raise", "nondict", "dict"}
    ELSE {"nondict"}

\* MarkdownReader.read(source_path): the metadata the fallback parser may
\* return, none for a text of markers and line breaks alone
FallbackMetadata(text) ==
    IF \E i \in 1..Len(text) : text[i] = "a"
    THEN { EmptyDict, Put(EmptyDict, "toc", Str(<<"true">>)),
           Put(EmptyDict, "title", Str(<<"a">>)) }
    ELSE { EmptyDict }

\* ------------------------------------------------------------------ inputs
DocTokens == {"---", "...", "\n", "a"}

RECURSIVE SeqsUpTo(_, _)
SeqsUpTo(S, n) ==
    IF n = 0 THEN {<<>>}
    ELSE LET shorter == SeqsUpTo(S, n - 1)
         IN  shorter \cup { Append(t, x) : t \in {u \in shorter : Len(u) = n - 1}, x \in S }

Docs == SeqsUpTo(DocTokens, MaxDocLen)

\* a document with a header, a body and a later marker line
NormDoc == <<"---", "\n", "a", "\n", "---", "\n", "a">>

\* settings["FORMATTED_FIELDS"]: Pelican's default, and one with a field that
\* has a processor
DefaultFormatted == {"summary"}
FormattedConfigs == { DefaultFormatted, {"summary", "author"} }

SEmpty == Str(<<>>)
SBlank == Str(<<" ">>)
SA == Str(<<" ", "a">>)
SB == Str(<<"b">>)
Zero == IntV(<<"0">>)

GenericScalars == {Null, SEmpty, SBlank, SA, Zero}
DateScalars == { DateObj(<<"2020-01-01">>), Str(<<"2020-01-01", "_", "10:20">>) }
PathScalars == { Str(<<"pag", "es/", "a">>), Str(<<"pag", "pag", "es/", "es/">>) }
RawLists ==
    { ListV(<<>>), ListV(<<Null>>), ListV(<<SA>>), ListV(<<SA, SB>>),
      ListV(<<Null, SA>>), ListV(<<SEmpty, SB>>) }

RawNames ==
    {"author", "authors", "tags", "category", "Slug", "date", "url",
     "path_no_ext", "summary", "toc", "#1"}

Field(n, v) == [name |-> n, value |-> v]
NoField == Field("", Null)

RawFields ==
    { Field(n, v) : n \in RawNames, v \in GenericScalars \cup RawLists }
    \cup { Field("date", v) : v \in DateScalars }
    \cup { Field("path_no_ext", v) : v \in PathScalars }

\* the fields of the documents read from start to end
ReadFields ==
    { Field("toc", SA), Field("date", SA), Field("author", ListV(<<SA, SB>>)) }

\* ------------------------------------------------------------------- state
VARIABLES
    doc,        \* the text pelican_open returns
    formatted,  \* settings["FORMATTED_FIELDS"]
    pc,         \* the stage read() is in
    trace,      \* the stages entered so far
    header,     \* m.group("metadata"), handed to the decoder
    body,       \* m.group("content"), handed to the renderer
    content,    \* the rendered body
    decoded,    \* the outcome of yaml.safe_load
    output,     \* output of _parse_yaml_metadata
    cur,        \* the (name, value) item the loop handled last
    seen,       \* the keys of meta iterated so far
    metadata,   \* the metadata read() returns
    log,        \* the log records written
    exc         \* the exception that left read(), "" for none

vars == <<doc, formatted, pc, trace, header, body, content, decoded, output,
          cur, seen, metadata, log, exc>>

Start(d, fmt) ==
    /\ doc = d
    /\ formatted = fmt
    /\ pc = "Start"
    /\ trace = <<"Start">>
    /\ header = <<>>
    /\ body = <<>>
    /\ content = <<>>
    /\ decoded = "none"
    /\ output = EmptyDict
    /\ cur = NoField
    /\ seen = {}
    /\ metadata = EmptyDict
    /\ log = {}
    /\ exc = ""

Init == \E d \in Docs : Start(d, DefaultFormatted)

InitNorm == \E fmt \in FormattedConfigs : Start(NormDoc, fmt)

Goto(stage) == pc' = stage /\ trace' = Append(trace, stage)

\* read(): pelican_open and HEADER_RE.fullmatch
Match ==
    /\ pc = "Start"
    /\ LET m == HeaderMatch(doc)
       IN  /\ Goto(IF m.matched THEN "HeaderFound" ELSE "NoHeader")
           /\ header' = m.metadata
           /\ body' = m.content
    /\ UNCHANGED <<doc, formatted, content, decoded, output, cur, seen, metadata, log, exc>>

\* read(): no header, super().read(source_path)
FallbackRead ==
    /\ pc = "NoHeader"
    /\ Goto("FallbackParse")
    /\ log' = log \cup {<<"info", "fallback">>}
    /\ content' = Convert(doc)
    /\ \E md \in FallbackMetadata(doc) : metadata' = md
    /\ UNCHANGED <<doc, formatted, header, body, decoded, output, cur, seen, exc>>

\* read(): the body is rendered, then _load_yaml_metadata decodes the header
LoadYaml ==
    /\ pc = "HeaderFound"
    /\ Goto("Decode")
    /\ content' = Convert(body)
    /\ \E o \in YamlSafeLoad(header) :
          /\ decoded' = o
          /\ log' = log \cup (IF o = "dict" THEN {} ELSE {<<"error", o>>})
    /\ UNCHANGED <<doc, formatted, header, body, output, cur, seen, metadata, exc>>

DecodeFailedFallsBack ==
    /\ pc = "Decode"
    /\ decoded # "dict"
    /\ Goto("FallbackParse")
    /\ metadata' = EmptyDict
    /\ UNCHANGED <<doc, formatted, header, body, content, decoded, output, cur, seen, log, exc>>

DecodeFailedBlanksBody ==
    /\ pc = "Decode"
    /\ decoded # "dict"
    /\ Goto("Done")
    /\ metadata' = EmptyDict
    /\ content' = <<>>
    /\ UNCHANGED <<doc, formatted, header, body, decoded, output, cur, seen, log, exc>>

\* _load_yaml_metadata returns {}: read() finds no "toc" and returns
DecodeFailed ==
    /\ pc = "Decode"
    /\ decoded # "dict"
    /\ Goto("Done")
    /\ metadata' = EmptyDict
    /\ UNCHANGED <<doc, formatted, header, body, content, decoded, output, cur, seen, log, exc>>

\* _load_yaml_metadata calls _parse_yaml_metadata
ParseBegin ==
    /\ pc = "Decode"
    /\ decoded = "dict"
    /\ Goto("Normalize")
    /\ output' = EmptyDict
    /\ UNCHANGED <<doc, formatted, header, body, content, decoded, cur, seen, metadata, log, exc>>

\* one iteration of the loop of _parse_yaml_metadata
ParseField(f) ==
    /\ pc = "Normalize"
    /\ Cardinality(seen) < MaxFields
    /\ f.name \notin seen
    /\ LET r == ParseItem(output, formatted, f.name, f.value)
       IN  /\ output' = r.output
           /\ log' = log \cup { <<"warning", n>> : n \in r.warn }
           /\ exc' = r.exc
           /\ IF r.exc # "" THEN Goto("Raised") ELSE UNCHANGED <<pc, trace>>
    /\ cur' = f
    /\ seen' = seen \cup {f.name}
    /\ UNCHANGED <<doc, formatted, header, body, content, decoded, metadata>>

ParseEndNoIndex ==
    /\ pc = "Normalize"
    /\ Goto("Done")
    /\ metadata' = output
    /\ UNCHANGED <<doc, formatted, header, body, content, decoded, output, cur, seen, log, exc>>

\* the loop ends and read() has its metadata: with "toc" in it, the table of
\* contents is computed from the body
ParseEnd ==
    /\ pc = "Normalize"
    /\ \/ /\ "toc" \in DOMAIN output
          /\ Goto("Index")
          /\ metadata' = Put(output, "parsed_toc", TocTokens(body))
       \/ /\ "toc" \notin DOMAIN output
          /\ Goto("Done")
          /\ metadata' = output
    /\ UNCHANGED <<doc, formatted, header, body, content, decoded, output, cur, seen, log, exc>>

\* return content, metadata
Return ==
    /\ pc \in {"FallbackParse", "Index"}
    /\ Goto("Done")
    /\ UNCHANGED <<doc, formatted, header, body, content, decoded, output, cur, seen, metadata, log, exc>>

Next ==
    \/ Match
    \/ FallbackRead
    \/ LoadYaml
    \/ DecodeFailed
    \/ ParseBegin
    \/ \E f \in ReadFields : ParseField(f)
    \/ ParseEnd
    \/ Return

NextNorm ==
    \/ Match
    \/ LoadYaml
    \/ DecodeFailed
    \/ ParseBegin
    \/ \E f \in RawFields : ParseField(f)
    \/ ParseEnd
    \/ Return

Spec == Init /\ [][Next]_vars

SpecNorm == InitNorm /\ [][NextNorm]_vars

\* ===================================================================== claims
OnHeaderPath == Len(trace) >= 2 /\ trace[2] = "HeaderFound"
OnFallbackPath == Len(trace) >= 2 /\ trace[2] = "NoHeader"
Entered(stage) == \E i \in 1..Len(trace) : trace[i] = stage
IsPrefix(t, u) == Len(t) <= Len(u) /\ SubSeq(u, 1, Len(t)) = t

\* the step of the loop that handled cur'
FieldStep == seen' # seen

\* ---------------------------------------------------------------------- C1
\* C1: for every raw mapping and every configuration _parse_yaml_metadata
\* returns a mapping and never raises; no exception reaches the caller of
\* read().
C1_NeverRaises == pc # "Raised" /\ exc = ""

\* ---------------------------------------------------------------------- C2
C2_Name == Lower(cur.name)
C2_Kept == NonNull(cur.value.items)

\* C2 as stated: a raw list of length > 1 under a name of DUPES_NOT_ALLOWED
\* is stored as the value derived from its first element alone, and a warning
\* is logged for the field (whenever the normalizer returns).
C2_FirstOfRawList ==
    (cur.value.k = "list" /\ Len(cur.value.items) > 1 /\ C2_Name \in DUPES_NOT_ALLOWED
       /\ pc # "Raised")
    => /\ <<"warning", C2_Name>> \in log
       /\ C2_Name \in DOMAIN output
       /\ output[C2_Name] = ProcessMetadata(C2_Name, cur.value.items[1])

C2_Case(f, fmt) ==
    /\ f.value.k = "list"
    /\ Lower(f.name) \in DUPES_NOT_ALLOWED \ ({"author"} \cup fmt)
    /\ Len(NonNull(f.value.items)) > 1

\* C2 amended: for a name of DUPES_NOT_ALLOWED other than author, not a
\* formatted field, whose list keeps more than one entry once its nulls are
\* removed, the warning is logged and the first kept entry alone goes to the
\* processor: its result is stored under the name, nothing is stored when it
\* is the drop marker, and read() raises when the processor raises.
C2_FirstKept ==
    [][ (FieldStep /\ C2_Case(cur', formatted))
        => LET nm == Lower(cur'.name)
               r == ProcessMetadata(nm, NonNull(cur'.value.items)[1])
           IN  /\ <<"warning", nm>> \in log'
               /\ IF r.k = "raise" THEN pc' = "Raised"
                  ELSE /\ pc' = "Normalize"
                       /\ output' = IF r = DEL THEN output ELSE Put(output, nm, r) ]_vars

C2_Witness ==
    /\ C2_Case(cur, formatted)
    /\ <<"warning", C2_Name>> \in log
    /\ C2_Name \in DOMAIN output
    /\ output[C2_Name] = ProcessMetadata(C2_Name, C2_Kept[1])
    /\ pc = "Done"

\* ---------------------------------------------------------------------- C3
C3_Values(f) == NonNull(ToList(f.value))
C3_Authors(vals) == ListV([i \in 1..Len(vals) |-> Author(Strip(vals[i]))])

\* C3 as stated: a raw author field with a single value gives an author key
\* holding an Author record; with two or more values it gives an authors key
\* holding one Author record per value, in order.
C3_AuthorOrAuthors ==
    (Lower(cur.name) = "author" /\ pc # "Raised")
    => LET vals == C3_Values(cur)
       IN  /\ Len(vals) = 1 =>
                /\ "author" \in DOMAIN output
                /\ output["author"].k = "Author"
           /\ Len(vals) > 1 =>
                /\ "authors" \in DOMAIN output
                /\ output["authors"] = C3_Authors(vals)

\* C3 amended: with author not a formatted field, a single value that is
\* truthy is stored as author, one Author record of its trimmed text, and
\* authors is left as it was; a single falsy value ('', 0) stores nothing;
\* two or more values are stored as authors, one Author record per value in
\* order, and author is left as it was.
C3_AuthorField ==
    [][ (FieldStep /\ Lower(cur'.name) = "author" /\ "author" \notin formatted)
        => LET vals == C3_Values(cur')
           IN  /\ (Len(vals) = 1 /\ Truthy(vals[1]))
                    => output' = Put(output, "author", Author(Strip(vals[1])))
               /\ (Len(vals) = 1 /\ ~Truthy(vals[1])) => output' = output
               /\ Len(vals) > 1 => output' = Put(output, "authors", C3_Authors(vals))
               /\ Len(vals) >= 1 => pc' = "Normalize" ]_vars

C3_Witness ==
    /\ Lower(cur.name) = "author"
    /\ "author" \notin formatted
    /\ Len(C3_Values(cur)) = 2
    /\ "author" \notin DOMAIN output
    /\ output["authors"] = ListV(<<Author(<<"a">>), Author(<<"b">>)>>)
    /\ pc = "Done"

\* ---------------------------------------------------------------------- C4
Returned == decoded = "dict" /\ pc \in {"Index", "Done"}

RECURSIVE Reserialize(_)
Reserialize(v) ==
    CASE v.k \in {"Tag", "Category", "Author"} -> Str(v.s)
      [] v.k = "list" -> ListV([i \in 1..Len(v.items) |-> Reserialize(v.items[i])])
      [] OTHER -> v

RECURSIVE DictItems(_, _)
DictItems(d, keys) ==
    IF keys = {} THEN <<>>
    ELSE LET key == CHOOSE x \in keys : TRUE
         IN  <<Field(key, Reserialize(d[key]))>> \o DictItems(d, keys \ {key})

C10_Again == ParseYamlMetadata(formatted, DictItems(output, DOMAIN output))

\* C10: normalizing the re-serialized output of _parse_yaml_metadata again
\* gives the same value for every field not in FORMATTED_FIELDS.
C10_Idempotent ==
    Returned => /\ C10_Again.exc = ""
                /\ \A key \in DOMAIN output \ formatted :
                       /\ key \in DOMAIN C10_Again.output
                       /\ C10_Again.output[key] = output[key]

\* ---------------------------------------------------------------------- C5
PathFallback == <<"Start", "NoHeader", "FallbackParse", "Done">>
PathNormalize == <<"Start", "HeaderFound", "Decode", "Normalize", "Done">>
PathIndex == <<"Start", "HeaderFound", "Decode", "Normalize", "Index", "Done">>
PathDecodeFailed == <<"Start", "HeaderFound", "Decode", "Done">>
PathRaised == <<"Start", "HeaderFound", "Decode", "Normalize", "Raised">>

C5_Follows(paths) ==
    /\ \E p \in paths : IsPrefix(trace, p)
    /\ pc = trace[Len(trace)]
    /\ OnFallbackPath => decoded = "none" /\ seen = {} /\ "parsed_toc" \notin DOMAIN metadata
    /\ OnHeaderPath => <<"info", "fallback">> \notin log

\* C5 as stated: every run of read() follows Start, HeaderFound, Decode,
\* Normalize, optional Index, Done, or Start, NoHeader, FallbackParse, Done,
\* and always reaches Done.
C5_TwoPaths ==
    /\ C5_Follows({PathFallback, PathNormalize, PathIndex})
    /\ ~(ENABLED Next) => pc = "Done"

\* C5 amended: every run of read() follows one of four paths and stops only
\* at their ends: Start, NoHeader, FallbackParse, Done; Start, HeaderFound,
\* Decode, Done when decoding fails (the normalizer is skipped); Start,
\* HeaderFound, Decode, Normalize, optional Index, Done; or Start,
\* HeaderFound, Decode, Normalize ending in the exception a field raises.  The
\* decoder, normalizer and indexer never run on the NoHeader path, the
\* fallback parser never on the HeaderFound path, and no stage is repeated.
C5_Paths ==
    /\ C5_Follows({PathFallback, PathDecodeFailed, PathNormalize, PathIndex, PathRaised})
    /\ ~(ENABLED Next) => pc \in {"Done", "Raised"}
    /\ pc = "Raised" <=> exc # ""
    /\ (pc = "Done" /\ trace = PathDecodeFailed) <=> (pc = "Done" /\ decoded \in {"raise", "nondict"})

C5_Witness == trace = PathDecodeFailed /\ decoded = "raise" /\ seen = {}

\* ---------------------------------------------------------------------- C6
\* the text is blank lines, a line "---", `gap` - 1 or more line breaks or
\* other tokens, and a line "---" or "...": the end marker is at least `gap`
\* tokens after the start marker
HeaderShape(text, gap) ==
    \E i, j \in 1..Len(text) :
        /\ \A n \in 1..(i - 1) : text[n] = "\n"
        /\ text[i] = "---"
        /\ i < Len(text)
        /\ text[i + 1] = "\n"
        /\ j >= i + gap
        /\ text[j - 1] = "\n"
        /\ text[j] \in Markers
        /\ (j = Len(text) \/ text[j + 1] = "\n")

C6_Decides(gap) ==
    pc # "Start" =>
        /\ OnHeaderPath <=> HeaderShape(doc, gap)
        /\ ~HeaderShape(doc, gap) =>
              /\ pc \in {"NoHeader", "FallbackParse", "Done"}
              /\ decoded = "none"
              /\ pc # "NoHeader" => <<"info", "fallback">> \in log

\* C6 as stated: HeaderFound exactly when the text is blank lines, a line
\* "---", one or more lines of header content and a line "---" or "...";
\* every other document is NoHeader, takes the fallback path and never
\* reaches the decoder.
C6_OneOrMoreLines == C6_Decides(3)

\* C6 amended: HeaderFound exactly when the text is blank lines, a line
\* "---", zero or more lines of header content and a line "---" or "..."
\* ("---\n---" has a header, the line break alone); every other document is
\* NoHeader, takes the fallback path and never reaches the decoder.
C6_ZeroOrMoreLines == C6_Decides(2)

C6_Witness ==
    /\ pc = "Decode"
    /\ doc = <<"\n", "---", "\n", "a", "\n", "...", "\n">>

\* ---------------------------------------------------------------------- C7
\* a line that is "---" or "..." and nothing else
MarkerLine(text, n) ==
    /\ n \in 1..Len(text)
    /\ text[n] \in Markers
    /\ AtLineStart(text, n)
    /\ AtLineEnd(text, n + 1)

\* C7: with a header detected, the body handed to the renderer is the text
\* after the first end-marker line that follows the start marker, verbatim,
\* and the header handed to the decoder is the text between the two, also
\* when further marker lines come later.
C7_BodyVerbatim ==
    OnHeaderPath =>
        \E i, j \in 1..Len(doc) :
            /\ \A n \in 1..(i - 1) : doc[n] = "\n"
            /\ doc[i] = "---"
            /\ i < j
            /\ MarkerLine(doc, j)
            /\ \A n \in (i + 1)..(j - 1) : ~MarkerLine(doc, n)
            /\ doc = SubSeq(doc, 1, i) \o header \o <<doc[j]>> \o body
            /\ decoded # "none" =>
                  /\ content = Convert(SubSeq(doc, j + 1, Len(doc)))
                  /\ decoded \in YamlSafeLoad(SubSeq(doc, i + 1, j - 1))

C7_Witness ==
    /\ pc = "Done"
    /\ OnHeaderPath
    /\ \E n \in 1..Len(header) : header[n] = "a"
    /\ \E n \in 1..Len(body) : MarkerLine(body, n)

\* ---------------------------------------------------------------------- C8
\* C8: when decoding fails (the parser raises or the root is not a mapping)
\* read() returns empty metadata and the body rendered as it is when decoding
\* succeeds, nothing is raised, and neither the normalizer nor the indexer
\* runs.
C8_DecodeFailure ==
    /\ decoded # "none" => content = Convert(HeaderMatch(doc).content)
    /\ decoded \in {"raise", "nondict"} =>
          /\ <<"error", decoded>> \in log
          /\ pc \in {"Decode", "Done"}
          /\ exc = ""
          /\ ~Entered("Normalize") /\ ~Entered("Index")
          /\ seen = {} /\ output = EmptyDict
          /\ metadata = EmptyDict

C8_Witness ==
    /\ pc = "Done"
    /\ decoded = "raise"
    /\ metadata = EmptyDict
    /\ content = <<"<p>", "a", "</p>">>

\* ---------------------------------------------------------------------- C9
C9_Indexed ==
    /\ "parsed_toc" \in DOMAIN metadata
    /\ metadata["parsed_toc"] = TocTokens(HeaderMatch(doc).content)

\* C9 as stated: on both paths of read(), metadata returned with the toc
\* flag has parsed_toc, the heading tokens of the body, and the indexer
\* writes parsed_toc only when the metadata has the toc flag.
C9_BothPaths ==
    /\ (pc = "Done" /\ "toc" \in DOMAIN metadata) => C9_Indexed
    /\ Entered("Index") => "toc" \in DOMAIN metadata

\* C9 amended: on the HeaderFound path, metadata returned with the toc flag
\* has parsed_toc, the heading tokens of the body, and the indexer writes
\* parsed_toc only when the metadata has the toc flag; on the NoHeader path
\* the fallback parser's metadata is returned as it is, without parsed_toc
\* also when it has the toc flag.
C9_HeaderPath ==
    /\ (pc = "Done" /\ OnHeaderPath /\ "toc" \in DOMAIN metadata) => C9_Indexed
    /\ Entered("Index") <=> (pc \in {"Index", "Done"} /\ "toc" \in DOMAIN output)
    /\ Entered("Index") => "toc" \in DOMAIN metadata /\ C9_Indexed
    /\ ~Entered("Index") => "parsed_toc" \notin DOMAIN metadata
    /\ (pc = "Done" /\ OnFallbackPath) => metadata \in FallbackMetadata(doc)

C9_Witness ==
    /\ pc = "Done"
    /\ OnHeaderPath
    /\ "toc" \in DOMAIN metadata
    /\ C9_Indexed
    /\ body # <<>>

====
